---- MODULE Spec2Model ----
(***************************************************************************)
(* A model of the ADR technology-radar tool (src/src/main.rs).             *)
(*                                                                         *)
(* The tool walks the directory tree, keeps the files named adr-<n>.md or  *)
(* adr-<n>.org, extracts "<stack> <cat> <action>: <tech>" statements from  *)
(* each with a regular expression, sorts the ADRs by id, folds the events  *)
(* into a map stack -> category -> {default, trial, retire} and prints it. *)
(*                                                                         *)
(* Text is a sequence of symbols.  A symbol is a space, a colon, a line    *)
(* break, one of the literals the regular expression names, or a run of    *)
(* other characters (a word); the expression tells no other characters     *)
(* apart.  File names are sequences of single characters.                  *)
(***************************************************************************)
EXTENDS Integers, Sequences, FiniteSets, TLC

VARIABLES
    fs,       \* the directory tree under "./": a set of entry records
    todo,     \* entries of "./" that read_dir has not yielded yet
    subtodo,  \* entries of the subdirectory not yielded yet (while inside)
    inSub,    \* the walk is inside the recursive call for the subdirectory
    results,  \* collect_adrs' Vec<Adr>
    applied,  \* number of events main's loops have consumed in this pass
    stacks,   \* main's Stacks: stack -> category -> TechCategory
    pc,       \* "collect", "fold", "done" or "panicked"
    panic,    \* the panic message, "" when none
    out,      \* what println! wrote: [printed, stacks]
    pass,     \* 1, or 2 while the same event list is folded a second time
    first     \* the snapshot the first pass ended with (pass 2 only)

vars == <<fs, todo, subtodo, inSub, results, applied, stacks, pc, panic,
          out, pass, first>>

----------------------------------------------------------------------------
(* Small helpers on sequences and sets.                                    *)

Max(S) == CHOOSE x \in S : \A y \in S : y <= x

Min(S) == CHOOSE x \in S : \A y \in S : x <= y

RECURSIVE Join(_)
\* The String a captured span of symbols stands for.
Join(syms) == IF syms = <<>> THEN "" ELSE Head(syms) \o Join(Tail(syms))

RECURSIVE Concat(_)
Concat(seqs) == IF seqs = <<>> THEN <<>> ELSE Head(seqs) \o Concat(Tail(seqs))

EmptyMap == [k \in {} |-> k]

----------------------------------------------------------------------------
(* Constants of the program.                                               *)

ADR_EXTENSIONS == { <<"m", "d">>, <<"o", "r", "g">> }

ADR_NAME_PREFIX == <<"a", "d", "r", "-">>

\* An alternation that also names the fourth tag Action::from knows.
RegexKeywordsWithCelebrate == {"default", "trial", "retire", "celebrate"}

\* The alternation of EVENT_REGEX's action group.
RegexKeywords == {"default", "trial", "retire"}

Digits == {"0", "1", "2", "3", "4", "5", "6", "7", "8", "9"}

DigitVal(d) ==
    CASE d = "0" -> 0 [] d = "1" -> 1 [] d = "2" -> 2 [] d = "3" -> 3
      [] d = "4" -> 4 [] d = "5" -> 5 [] d = "6" -> 6 [] d = "7" -> 7
      [] d = "8" -> 8 [] d = "9" -> 9

----------------------------------------------------------------------------
(* Path::extension and Path::file_stem on a file name.                     *)

Dots(name) == {k \in 1..Len(name) : name[k] = "."}

\* No extension: no dot at all, or the only dot is the leading one.
HasExtension(name) == Dots(name) # {} /\ Max(Dots(name)) > 1

Extension(name) == SubSeq(name, Max(Dots(name)) + 1, Len(name))

FileStem(name) ==
    IF HasExtension(name) THEN SubSeq(name, 1, Max(Dots(name)) - 1) ELSE name

\* str::strip_prefix: Some(rest) or None.
HasPrefix(s, p) == Len(s) >= Len(p) /\ SubSeq(s, 1, Len(p)) = p

StripPrefix(s, p) == SubSeq(s, Len(p) + 1, Len(s))

RECURSIVE DecVal(_)
DecVal(ds) ==
    IF ds = <<>> THEN 0
    ELSE 10 * DecVal(SubSeq(ds, 1, Len(ds) - 1)) + DigitVal(ds[Len(ds)])

\* A parse whose failure is replaced by 0 (unwrap_or_default).
FromStrLenient(s) ==
    LET body == IF s # <<>> /\ s[1] = "+" THEN Tail(s) ELSE s
    IN  IF body = <<>> \/ \E k \in 1..Len(body) : body[k] \notin Digits
        THEN [ok |-> TRUE, val |-> 0]
        ELSE [ok |-> TRUE, val |-> DecVal(body)]

\* usize::from_str: an optional "+", then one or more decimal digits.  The
\* names of the model have a few digits, far from usize::MAX, so the
\* overflow error does not arise.
FromStr(s) ==
    LET body == IF s # <<>> /\ s[1] = "+" THEN Tail(s) ELSE s
    IN  IF body = <<>> \/ \E k \in 1..Len(body) : body[k] \notin Digits
        THEN [ok |-> FALSE, val |-> 0]
        ELSE [ok |-> TRUE, val |-> DecVal(body)]

----------------------------------------------------------------------------
(* Action::from and the event regular expression.                          *)

ActionFrom(tag) ==
    CASE tag = "default" -> "Default"
      [] tag = "trial" -> "Trial"
      [] tag = "retire" -> "Retire"
      [] tag = "celebrate" -> "CelebrateRetirement"
      [] OTHER -> "panic"

\* "." matches any character but a line break.
NoNewline(text, a, b) == \A k \in a..b : text[k] # "\n"

\* " (default|trial|retire): " begins at the space at j.
IsMarker(text, j) ==
    /\ j >= 1 /\ j + 3 <= Len(text)
    /\ text[j] = " "
    /\ text[j + 1] \in RegexKeywords
    /\ text[j + 2] = ":"
    /\ text[j + 3] = " "

\* The ways the expression matches from p: the stack group ends before the
\* space at i, the category group before the space at j.
Splits(text, p) ==
    {ij \in {i \in p..Len(text) : text[i] = " "}
                \X {j \in p..Len(text) : IsMarker(text, j)} :
        /\ ij[1] < ij[2]
        /\ NoNewline(text, p, ij[2])}

\* Lazy groups (.*?): the shortest stack, then the shortest category.
PickSplitLazy(S) ==
    LET i == Min({ij[1] : ij \in S})
    IN  <<i, Min({ij[2] : ij \in {x \in S : x[1] = i}})>>

\* Greedy groups (.*): the longest stack, then the longest category.
PickSplit(S) ==
    LET i == Max({ij[1] : ij \in S})
    IN  <<i, Max({ij[2] : ij \in {x \in S : x[1] = i}})>>

\* The tech group: greedy to the end of the line.
TechEnd(text, from) ==
    Max({e \in (from - 1)..Len(text) : NoNewline(text, from, e)})

\* The leftmost match at or after pos, or NoMatch.
NoMatch == [found |-> FALSE]

MatchFrom(text, pos) ==
    LET starts == {p \in pos..Len(text) : Splits(text, p) # {}}
    IN  IF starts = {} THEN NoMatch
        ELSE LET p  == Min(starts)
                 ij == PickSplit(Splits(text, p))
             IN  [found  |-> TRUE,
                  stack  |-> SubSeq(text, p, ij[1] - 1),
                  cat    |-> SubSeq(text, ij[1] + 1, ij[2] - 1),
                  action |-> text[ij[2] + 1],
                  tech   |-> SubSeq(text, ij[2] + 4, TechEnd(text, ij[2] + 4)),
                  end    |-> TechEnd(text, ij[2] + 4)]

RECURSIVE CapturesIter(_, _)
\* Regex::captures_iter: successive non-overlapping matches.
CapturesIter(text, pos) ==
    LET m == MatchFrom(text, pos)
    IN  IF ~m.found THEN <<>> ELSE <<m>> \o CapturesIter(text, m.end + 1)

\* The stack and cat groups read into each other's field.
EventOfSwapped(capture) ==
    [action   |-> ActionFrom(capture.action),
     stack    |-> Join(capture.cat),
     category |-> Join(capture.stack),
     tech     |-> Join(capture.tech)]

EventOf(capture) ==
    [action   |-> ActionFrom(capture.action),
     stack    |-> Join(capture.stack),
     category |-> Join(capture.cat),
     tech     |-> Join(capture.tech)]

\* parse_events: Err when the file cannot be read, else every match mapped
\* to an Event; Action::from panics on a tag it does not know.
ParseEvents(file) ==
    IF ~file.readable THEN [ok |-> FALSE, panic |-> "", events |-> <<>>]
    ELSE LET caps == CapturesIter(file.text, 1)
             evs  == [k \in 1..Len(caps) |-> EventOf(caps[k])]
         IN  IF \E k \in 1..Len(evs) : evs[k].action = "panic"
             THEN [ok |-> FALSE, panic |-> "Unknown action", events |-> <<>>]
             ELSE [ok |-> TRUE, panic |-> "", events |-> evs]

----------------------------------------------------------------------------
(* The snapshot and one event's application (the body of main's loops).    *)

DefaultTechCategory == [default |-> {}, trial |-> {}, retire |-> {}]

\* BTreeMap::insert(key, Default::default()): the entry is replaced.
OrDefaultReset(map, key, dflt) == (key :> dflt) @@ map

\* BTreeMap::entry(key).or_default(): the map with the key present.
OrDefault(map, key, dflt) ==
    IF key \in DOMAIN map THEN map ELSE map @@ (key :> dflt)

\* The removes without the one on trial.
RemoveAllButTrial(category, tech) ==
    [default |-> category.default \ {tech},
     trial   |-> category.trial,
     retire  |-> category.retire \ {tech}]

\* The three unconditional removes.
RemoveAll(category, tech) ==
    [default |-> category.default \ {tech},
     trial   |-> category.trial \ {tech},
     retire  |-> category.retire \ {tech}]

\* A CelebrateRetirement arm that inserts into retire.
ApplyActionCelebrateRetires(category, action, tech) ==
    CASE action = "Default" -> [category EXCEPT !.default = @ \cup {tech}]
      [] action = "Trial" -> [category EXCEPT !.trial = @ \cup {tech}]
      [] action = "Retire" -> [category EXCEPT !.retire = @ \cup {tech}]
      [] action = "CelebrateRetirement" ->
            [category EXCEPT !.retire = @ \cup {tech}]

\* The match on event.action.
ApplyAction(category, action, tech) ==
    CASE action = "Default" -> [category EXCEPT !.default = @ \cup {tech}]
      [] action = "Trial" -> [category EXCEPT !.trial = @ \cup {tech}]
      [] action = "Retire" -> [category EXCEPT !.retire = @ \cup {tech}]
      [] action = "CelebrateRetirement" ->
            [category EXCEPT !.retire = @ \ {tech}]

\* An insert that is skipped when the remove before it found the name in
\* the target set (the event toggles the status instead of setting it).
ApplyEventToggle(st, event) ==
    LET withStack == OrDefault(st, event.stack, EmptyMap)
        stack     == OrDefault(withStack[event.stack], event.category,
                               DefaultTechCategory)
        before    == stack[event.category]
        removed   == RemoveAll(before, event.tech)
        was       == \/ event.action = "Default" /\ event.tech \in before.default
                     \/ event.action = "Trial" /\ event.tech \in before.trial
                     \/ event.action = "Retire" /\ event.tech \in before.retire
        after     == IF was THEN removed
                     ELSE ApplyAction(removed, event.action, event.tech)
    IN  [withStack EXCEPT ![event.stack] =
            [stack EXCEPT ![event.category] = after]]

ApplyEvent(st, event) ==
    LET withStack == OrDefault(st, event.stack, EmptyMap)
        stack     == OrDefault(withStack[event.stack], event.category,
                               DefaultTechCategory)
        after     == ApplyAction(RemoveAll(stack[event.category], event.tech),
                                 event.action, event.tech)
    IN  [withStack EXCEPT ![event.stack] =
            [stack EXCEPT ![event.category] = after]]

\* The order main's nested loops consume the events in.
Flatten(adrs) == Concat([k \in 1..Len(adrs) |-> adrs[k].events])

----------------------------------------------------------------------------
(* collect_adrs: the callback on one file, and the final sort.             *)

Qualifies(name) ==
    /\ HasExtension(name)
    /\ Extension(name) \in ADR_EXTENSIONS
    /\ HasPrefix(FileStem(name), ADR_NAME_PREFIX)

\* The closure passed to visit_dirs, on results so far and one file.
Callback(res, file) ==
    IF ~Qualifies(file.name) THEN [results |-> res, panic |-> ""]
    ELSE LET n == FromStr(StripPrefix(FileStem(file.name), ADR_NAME_PREFIX))
         IN  IF ~n.ok
             THEN [results |-> res, panic |-> "ADR number to be a small integer"]
             ELSE LET r == ParseEvents(file)
                  IN  IF r.ok
                      THEN [results |-> Append(res, [id |-> n.val, events |-> r.events]),
                            panic   |-> ""]
                      ELSE [results |-> res,
                            panic   |-> IF r.panic # "" THEN r.panic
                                        ELSE "Read path to succeed"]

\* x goes behind every element whose key is not greater: a stable sort.
InsertByKey(sorted, x) ==
    LET n == Cardinality({k \in 1..Len(sorted) : sorted[k].id <= x.id})
    IN  SubSeq(sorted, 1, n) \o <<x>> \o SubSeq(sorted, n + 1, Len(sorted))

\* No sort: the ADRs stay in discovery order.
SortByKeyNone(adrs) == adrs

RECURSIVE SortByKey(_)
\* results.sort_by_key(|adr| adr.id)
SortByKey(adrs) ==
    IF adrs = <<>> THEN <<>>
    ELSE InsertByKey(SortByKey(SubSeq(adrs, 1, Len(adrs) - 1)), adrs[Len(adrs)])

----------------------------------------------------------------------------
(* The inputs: directory trees, texts and event lists.                     *)

MaxFiles == 3       \* files in a directory tree

MaxTokens == 5      \* tokens in a text built from tokens

MaxStatements == 2  \* statements in a text built from statements

MaxEvents == 3      \* events in an event list handed to the fold

SeqsUpTo(S, n) == UNION {[1..k -> S] : k \in 0..n}

Entry(dir, name, isDir, readable, text) ==
    [dir |-> dir, name |-> name, isDir |-> isDir, readable |-> readable,
     text |-> text]

File(dir, name, readable, text) == Entry(dir, name, FALSE, readable, text)

Statement(stack, cat, action, tech) ==
    <<stack, " ", cat, " ", action, ":", " ", tech>>

Adr1Md == File(".", <<"a", "d", "r", "-", "1", ".", "m", "d">>, TRUE,
               <<"Data", " ", "Store", " ", "trial", ":", " ", "Postgres">>)

Adr2Md == File(".", <<"a", "d", "r", "-", "2", ".", "m", "d">>, TRUE,
               <<"Data", " ", "Store", " ", "default", ":", " ", "Postgres">>)

\* A second file with id 1, in the subdirectory.
SubAdr1Org == File("sub", <<"a", "d", "r", "-", "1", ".", "o", "r", "g">>, TRUE,
                   <<"Data", " ", "Store", " ", "retire", ":", " ", "Postgres">>)

AdrXMd == File(".", <<"a", "d", "r", "-", "x", ".", "m", "d">>, TRUE,
               <<"Web", " ", "Framework", " ", "trial", ":", " ", "React">>)

\* A well-named file that cannot be read.
Adr3Md == File(".", <<"a", "d", "r", "-", "3", ".", "m", "d">>, FALSE, <<>>)

\* No "adr-" prefix: skipped, whatever it says.
NotesMd == File(".", <<"n", "o", "t", "e", "s", ".", "m", "d">>, TRUE,
                <<"Data", " ", "Store", " ", "retire", ":", " ", "Postgres">>)

\* Not an ADR extension: skipped before its name is parsed.
SubAdrYTxt == File("sub", <<"a", "d", "r", "-", "y", ".", "t", "x", "t">>, FALSE,
                   <<>>)

UniverseSeq == <<Adr1Md, Adr2Md, SubAdr1Org, AdrXMd, Adr3Md, NotesMd, SubAdrYTxt>>

Universe == {UniverseSeq[k] : k \in 1..Len(UniverseSeq)}

SubDir(readable) == Entry(".", <<"s", "u", "b">>, TRUE, readable, <<>>)

Trees ==
    {files \cup {SubDir(ok)} :
        files \in {F \in SUBSET Universe : Cardinality(F) <= MaxFiles},
        ok \in BOOLEAN}

\* Texts of tokens: each pair of neighbours is joined by one space, except
\* at a line break.
Tokens ==
    { <<"a">>, <<"b">>, <<"default", ":">>, <<"celebrate", ":">>, <<"trial">>,
      <<"\n">> }

RECURSIVE JoinTokens(_)
JoinTokens(toks) ==
    IF Len(toks) <= 1 THEN Concat(toks)
    ELSE LET rest == JoinTokens(Tail(toks))
         IN  IF Head(toks) = <<"\n">> \/ toks[2] = <<"\n">>
             THEN Head(toks) \o rest
             ELSE Head(toks) \o <<" ">> \o rest

TokenTexts == {JoinTokens(toks) : toks \in SeqsUpTo(Tokens, MaxTokens)}

\* Texts of whole statements, each followed by a space or a line break.
Statements ==
    {Statement("Backend", cat, action, tech) :
        cat \in {"Language", "Framework"},
        action \in {"default", "trial", "retire"},
        tech \in {"Go", "React"}}

RECURSIVE JoinStatements(_, _)
JoinStatements(stmts, seps) ==
    IF Len(stmts) <= 1 THEN Concat(stmts)
    ELSE Head(stmts) \o <<Head(seps)>> \o JoinStatements(Tail(stmts), Tail(seps))

StatementTexts ==
    UNION {{JoinStatements(stmts, seps) :
                stmts \in [1..n -> Statements], seps \in [1..n - 1 -> {" ", "\n"}]} :
           n \in 1..MaxStatements}

Texts == TokenTexts \cup StatementTexts

\* Event lists for the fold alone; they may hold CelebrateRetirement.
Places ==
    { <<"Backend", "Language", "Go">>, <<"Backend", "Language", "React">>,
      <<"Backend", "Framework", "React">>, <<"Web", "Framework", "React">> }

Actions == {"Default", "Trial", "Retire", "CelebrateRetirement"}

Events ==
    {[action |-> a, stack |-> p[1], category |-> p[2], tech |-> p[3]] :
        a \in Actions, p \in Places}

\* The list as two ADRs: the first event in ADR 1, the others in ADR 2.
AdrsOf(events) ==
    IF events = <<>> THEN <<>>
    ELSE << [id |-> 1, events |-> SubSeq(events, 1, 1)],
            [id |-> 2, events |-> SubSeq(events, 2, Len(events))] >>

----------------------------------------------------------------------------
(* The state machine.                                                      *)

NoOutput == [printed |-> FALSE, stacks |-> EmptyMap]

Start(tree) ==
    /\ fs = tree
    /\ todo = {e \in tree : e.dir = "."}
    /\ subtodo = {}
    /\ inSub = FALSE
    /\ results = <<>>
    /\ applied = 0
    /\ stacks = EmptyMap
    /\ pc = "collect"
    /\ panic = ""
    /\ out = NoOutput
    /\ pass = 1
    /\ first = EmptyMap

\* A run on a directory tree.
Init == \E tree \in Trees : Start(tree)

\* A run on one ADR file, with any text.
InitExtract ==
    \E text \in Texts :
        Start({File(".", <<"a", "d", "r", "-", "7", ".", "m", "d">>, TRUE, text)})

\* main from the fold on, results being any sorted list of ADRs.
InitFold ==
    /\ fs = {}
    /\ todo = {}
    /\ subtodo = {}
    /\ inSub = FALSE
    /\ results \in {AdrsOf(events) : events \in SeqsUpTo(Events, MaxEvents)}
    /\ applied = 0
    /\ stacks = EmptyMap
    /\ pc = "fold"
    /\ panic = ""
    /\ out = NoOutput
    /\ pass = 1
    /\ first = EmptyMap

\* visit_dirs yields a file of the directory it is in: cb(&entry).
VisitFile ==
    /\ pc = "collect"
    /\ \E file \in (IF inSub THEN subtodo ELSE todo) :
        /\ ~file.isDir
        /\ LET r == Callback(results, file)
           IN  /\ results' = r.results
               /\ panic' = r.panic
               /\ pc' = IF r.panic # "" THEN "panicked" ELSE "collect"
        /\ todo' = IF inSub THEN todo ELSE todo \ {file}
        /\ subtodo' = IF inSub THEN subtodo \ {file} ELSE subtodo
    /\ UNCHANGED <<fs, inSub, applied, stacks, out, pass, first>>

\* visit_dirs yields a directory and calls itself on it; a read_dir error
\* comes back through "?" to collect_adrs' expect.
EnterDir ==
    /\ pc = "collect"
    /\ ~inSub
    /\ \E d \in todo :
        /\ d.isDir
        /\ todo' = todo \ {d}
        /\ IF d.readable
           THEN /\ inSub' = TRUE
                /\ subtodo' = {e \in fs : e.dir = "sub"}
                /\ UNCHANGED <<pc, panic>>
           ELSE /\ pc' = "panicked"
                /\ panic' = "Visit dir not to fail"
                /\ UNCHANGED <<inSub, subtodo>>
    /\ UNCHANGED <<fs, results, applied, stacks, out, pass, first>>

\* The recursive call returns Ok(()).
LeaveDir ==
    /\ pc = "collect"
    /\ inSub
    /\ subtodo = {}
    /\ inSub' = FALSE
    /\ UNCHANGED <<fs, todo, subtodo, results, applied, stacks, pc, panic, out,
                   pass, first>>

\* The walk is over: collect_adrs sorts and returns, main makes the
\* empty Stacks.
Sort ==
    /\ pc = "collect"
    /\ ~inSub
    /\ todo = {}
    /\ results' = SortByKey(results)
    /\ stacks' = EmptyMap
    /\ applied' = 0
    /\ pc' = "fold"
    /\ UNCHANGED <<fs, todo, subtodo, inSub, panic, out, pass, first>>

\* One iteration of the inner loop of main.
FoldStep ==
    /\ pc = "fold"
    /\ applied < Len(Flatten(results))
    /\ stacks' = ApplyEvent(stacks, Flatten(results)[applied + 1])
    /\ applied' = applied + 1
    /\ UNCHANGED <<fs, todo, subtodo, inSub, results, pc, panic, out, pass, first>>

\* println!("{}", stacks)
Println ==
    /\ pc = "fold"
    /\ applied = Len(Flatten(results))
    /\ out' = [printed |-> TRUE, stacks |-> stacks]
    /\ pc' = "done"
    /\ UNCHANGED <<fs, todo, subtodo, inSub, results, applied, stacks, panic,
                   pass, first>>

\* The loops of main run once more over the same results, on the snapshot
\* the first pass left.
Replay ==
    /\ pc = "done"
    /\ pass = 1
    /\ pass' = 2
    /\ first' = stacks
    /\ applied' = 0
    /\ pc' = "fold"
    /\ UNCHANGED <<fs, todo, subtodo, inSub, results, stacks, panic, out>>

Next == VisitFile \/ EnterDir \/ LeaveDir \/ Sort \/ FoldStep \/ Println

Spec == Init /\ [][Next]_vars

NextExtract == VisitFile \/ Sort \/ FoldStep \/ Println

SpecExtract == InitExtract /\ [][NextExtract]_vars

NextFold == FoldStep \/ Println \/ Replay

SpecFold == InitFold /\ [][NextFold]_vars

----------------------------------------------------------------------------
(* Vocabulary of the properties.                                           *)

StatusSets == {"default", "trial", "retire"}

HasEntry(st, s, c) == s \in DOMAIN st /\ c \in DOMAIN st[s]

\* t is listed under status x of (s, c); an absent entry lists nothing.
Listed(st, s, c, x, t) == HasEntry(st, s, c) /\ t \in st[s][c][x]

SetOfAction(a) ==
    CASE a = "Default" -> "default" [] a = "Trial" -> "trial"
      [] a = "Retire" -> "retire"

\* The events the fold has consumed so far, over both passes.
AppliedEvents ==
    IF pass = 1 THEN SubSeq(Flatten(results), 1, applied)
    ELSE Flatten(results) \o SubSeq(Flatten(results), 1, applied)

Mentions(e, s, c, t) == e.stack = s /\ e.category = c /\ e.tech = t

MentionsOf(evs, s, c, t) == {k \in 1..Len(evs) : Mentions(evs[k], s, c, t)}

RECURSIVE Aggregate(_, _)
\* The fold of a whole event list into a snapshot.
Aggregate(st, evs) ==
    IF evs = <<>> THEN st ELSE Aggregate(ApplyEvent(st, Head(evs)), Tail(evs))

----------------------------------------------------------------------------
\* C1: after every event application, every technology name is in at most
\* one of the sets default, trial, retire of any (stack, category).
C1_SingleMembership ==
    \A s \in DOMAIN stacks : \A c \in DOMAIN stacks[s] :
        /\ stacks[s][c].default \cap stacks[s][c].trial = {}
        /\ stacks[s][c].default \cap stacks[s][c].retire = {}
        /\ stacks[s][c].trial \cap stacks[s][c].retire = {}

\* A technology was put in one set and then, by a later event, in another.
C1_Witness ==
    /\ pass = 1
    /\ \E k, m \in 1..applied :
        LET e == Flatten(results)[k]
            f == Flatten(results)[m]
        IN  /\ k < m
            /\ Mentions(f, e.stack, e.category, e.tech)
            /\ e.action # "CelebrateRetirement"
            /\ f.action # "CelebrateRetirement"
            /\ e.action # f.action

\* C2: the status of each (stack, category, tech) is decided by the action
\* of the last event applied that mentions it: after Default, Trial or
\* Retire it is in exactly that set; after CelebrateRetirement, or when no
\* event mentioned it, it is in none.
C2_LastWriterWins ==
    \A p \in Places :
        LET ks == MentionsOf(AppliedEvents, p[1], p[2], p[3])
        IN  IF ks = {} \/ AppliedEvents[Max(ks)].action = "CelebrateRetirement"
            THEN \A x \in StatusSets : ~Listed(stacks, p[1], p[2], x, p[3])
            ELSE \A x \in StatusSets :
                    Listed(stacks, p[1], p[2], x, p[3])
                        <=> x = SetOfAction(AppliedEvents[Max(ks)].action)

\* A technology was added, cleared by CelebrateRetirement and added again.
C2_Witness ==
    /\ pass = 1
    /\ applied = 3
    /\ LET evs == Flatten(results)
       IN  /\ Mentions(evs[2], evs[1].stack, evs[1].category, evs[1].tech)
           /\ Mentions(evs[3], evs[1].stack, evs[1].category, evs[1].tech)
           /\ evs[1].action = "Default"
           /\ evs[2].action = "CelebrateRetirement"
           /\ evs[3].action = "Trial"

\* C7: folding the event list a second time, on top of the snapshot the
\* first fold produced, ends in that same snapshot.
C7_Idempotent == (pass = 2 /\ pc = "done") => stacks = first

\* The second pass over a list of several events has ended.
C7_Witness ==
    /\ pass = 2
    /\ pc = "done"
    /\ Len(Flatten(results)) >= 2
    /\ first # EmptyMap

\* C10: one event application changes only the membership of the event's
\* tech in the sets of the event's (stack, category); every other tech of
\* that entry and every other entry are as before, and no stack or
\* category key is removed.
C10_FrameStep ==
    LET e == Flatten(results)[applied + 1]
    IN  /\ \A s \in DOMAIN stacks :
            /\ s \in DOMAIN stacks'
            /\ \A c \in DOMAIN stacks[s] : c \in DOMAIN stacks'[s]
        /\ \A s \in DOMAIN stacks' : \A c \in DOMAIN stacks'[s] :
            <<s, c>> # <<e.stack, e.category>>
                => HasEntry(stacks, s, c) /\ stacks'[s][c] = stacks[s][c]
        /\ HasEntry(stacks', e.stack, e.category)
        /\ \A x \in StatusSets :
            stacks'[e.stack][e.category][x] \ {e.tech}
                = IF HasEntry(stacks, e.stack, e.category)
                  THEN stacks[e.stack][e.category][x] \ {e.tech}
                  ELSE {}

C10_Frame == [][applied' = applied + 1 => C10_FrameStep]_vars

\* After three events the snapshot holds an entry whose sets are all empty
\* beside an entry that lists a technology.
C10_Witness ==
    /\ applied = 3
    /\ \E s \in DOMAIN stacks : \E c \in DOMAIN stacks[s] :
        stacks[s][c] = DefaultTechCategory
    /\ \E s \in DOMAIN stacks : \E c \in DOMAIN stacks[s] :
        stacks[s][c] # DefaultTechCategory

----------------------------------------------------------------------------
(* Properties of a whole run on a directory tree.                          *)

FilesOf(tree) == {e \in tree : ~e.isDir}

\* The files of the tree in one fixed order of enumeration.
FixedOrder(tree) == SelectSeq(UniverseSeq, LAMBDA f : f \in tree)

RECURSIVE CollectAll(_, _)
CollectAll(res, files) ==
    IF files = <<>> THEN res
    ELSE CollectAll(Callback(res, Head(files)).results, Tail(files))

\* The snapshot of the run that enumerates the files in the fixed order.
FixedOrderSnapshot(tree) ==
    Aggregate(EmptyMap, Flatten(SortByKey(CollectAll(<<>>, FixedOrder(tree)))))

\* C3: the snapshot does not depend on the order in which the walk yields
\* the files, duplicate ids included: every run over a tree ends in the
\* snapshot of the run that takes the files in the fixed order.
C3_EnumerationOrderInvariant ==
    pc = "done" => stacks = FixedOrderSnapshot(fs)

\* A decimal number: digits, after an optional plus sign.
ValidNumber(s) ==
    LET body == IF s # <<>> /\ s[1] = "+" THEN Tail(s) ELSE s
    IN  body # <<>> /\ \A k \in 1..Len(body) : body[k] \in Digits

QualifyingFiles(tree) == {f \in FilesOf(tree) : Qualifies(f.name)}

BadFiles(tree) ==
    {f \in QualifyingFiles(tree) :
        \/ ~ValidNumber(StripPrefix(FileStem(f.name), ADR_NAME_PREFIX))
        \/ ~f.readable}

\* The files the walk has not reached yet.
Unvisited ==
    todo \cup subtodo
        \cup (IF \E d \in todo : d.isDir THEN {f \in fs : f.dir = "sub"} ELSE {})

\* C4: when a file that passes the extension and prefix filters has a
\* remainder that is no number, or cannot be read, the run panics at that
\* file at the latest and prints nothing; what is printed is printed after
\* every qualifying file was parsed and read.
C4_AllOrNothing ==
    /\ BadFiles(fs) # {} =>
        /\ ~out.printed
        /\ \/ pc = "panicked"
           \/ pc = "collect" /\ BadFiles(fs) \cap Unvisited # {}
    /\ out.printed =>
        /\ panic = ""
        /\ Len(results) = Cardinality(QualifyingFiles(fs))

\* The run panicked on a file name after it had read another ADR.
C4_Witness ==
    /\ pc = "panicked"
    /\ panic = "ADR number to be a small integer"
    /\ Len(results) >= 1
    /\ ~out.printed

TwoPostgresFiles == FilesOf(fs) = {Adr1Md, Adr2Md}

OnlyPostgresDefault(stackName) ==
    /\ DOMAIN stacks = {stackName}
    /\ DOMAIN stacks[stackName] = {"Store"}
    /\ stacks[stackName]["Store"] =
            [default |-> {"Postgres"}, trial |-> {}, retire |-> {}]
    /\ out = [printed |-> TRUE, stacks |-> stacks]

\* C5 as stated: adr-1.md with "Data Store trial: Postgres" and adr-2.md
\* with "Data Store default: Postgres" give one stack, "Data Store", with
\* one category, "Store", listing Postgres under Default only.
C5_StackDataStore ==
    (TwoPostgresFiles /\ pc = "done") => OnlyPostgresDefault("Data Store")

\* C5 as amended: the one stack is named "Data"; its one category is
\* "Store", listing Postgres under Default only.
C5_StackData ==
    (TwoPostgresFiles /\ pc = "done") => OnlyPostgresDefault("Data")

\* The run on exactly those two files has printed.
C5_Witness == TwoPostgresFiles /\ pc = "done" /\ out.printed

----------------------------------------------------------------------------
(* Properties of the extraction from one file's text.                      *)

\* The text of the one file of the run.
TheText == (CHOOSE f \in fs : ~f.isDir).text

\* The run is over: the events of the one file are in results.
Extracted == pc = "done" /\ Len(results) = 1

ExtractedEvents == results[1].events

IsWord(sym) == sym \notin {" ", ":", "\n"}

ExpectedAction(keyword) ==
    CASE keyword = "default" -> "Default"
      [] keyword = "trial" -> "Trial"
      [] keyword = "retire" -> "Retire"

StatementKeywords == {"default", "trial", "retire"}

\* "<word> <word> <action>: " at the start of the text.
IsStatementHead(text) ==
    /\ Len(text) >= 7
    /\ IsWord(text[1]) /\ text[2] = " "
    /\ IsWord(text[3]) /\ text[4] = " "
    /\ text[5] \in StatementKeywords /\ text[6] = ":" /\ text[7] = " "

\* The span starts no further "<action>: ", at its start or after a space.
NoFurtherAction(span) ==
    \A k \in 1..Len(span) - 2 :
        ~ /\ span[k] \in StatementKeywords
          /\ span[k + 1] = ":"
          /\ span[k + 2] = " "
          /\ (k = 1 \/ span[k - 1] = " ")

IsSingleStatement(text) ==
    /\ IsStatementHead(text)
    /\ NoNewline(text, 1, Len(text))
    /\ NoFurtherAction(SubSeq(text, 8, Len(text)))

\* C6: a one-line text "<stack> <category> <action>: <tech>", stack and
\* category single words, tech without a further action statement, yields
\* exactly one event, with those four fields.
C6_RoundTrip ==
    (Extracted /\ IsSingleStatement(TheText)) =>
        ExtractedEvents =
            << [action   |-> ExpectedAction(TheText[5]),
                stack    |-> TheText[1],
                category |-> TheText[3],
                tech     |-> Join(SubSeq(TheText, 8, Len(TheText)))] >>

\* Such a text, with different words for stack and category, was extracted
\* and folded.
C6_Witness ==
    /\ pc = "done"
    /\ IsSingleStatement(TheText)
    /\ TheText[1] # TheText[3]
    /\ Len(TheText) >= 8

RECURSIVE Lines(_)
\* The text cut at its line breaks.
Lines(text) ==
    LET breaks == {k \in 1..Len(text) : text[k] = "\n"}
    IN  IF breaks = {} THEN <<text>>
        ELSE <<SubSeq(text, 1, Min(breaks) - 1)>>
                \o Lines(SubSeq(text, Min(breaks) + 1, Len(text)))

\* The events the expression finds in one line taken alone.
EventsOfLine(line) ==
    LET caps == CapturesIter(line, 1)
    IN  [k \in 1..Len(caps) |-> EventOf(caps[k])]

IsStatement(chunk) ==
    /\ Len(chunk) = 8
    /\ IsStatementHead(chunk)
    /\ IsWord(chunk[8])
    /\ chunk[8] \notin StatementKeywords

\* The number of statements of a line made of whole statements with one
\* space between them; 0 for any other line.
StatementsIn(line) ==
    IF /\ Len(line) % 9 = 8
       /\ \A k \in 0..(Len(line) \div 9) :
            /\ IsStatement(SubSeq(line, 9 * k + 1, 9 * k + 8))
            /\ (k > 0 => line[9 * k] = " ")
    THEN (Len(line) + 1) \div 9
    ELSE 0

\* C8 as stated: a single line holding more than one statement yields more
\* than one event.
C8_OneEventPerStatement ==
    (Extracted /\ Len(Lines(TheText)) = 1 /\ StatementsIn(TheText) > 1)
        => Len(ExtractedEvents) > 1

\* C8 as amended: the matches are found left to right, line by line, and a
\* line yields at most one event; a line of one or more statements yields
\* exactly one, with the action, tech and category of its last statement
\* and all the text before that category as the stack.
C8_OneEventPerLine ==
    Extracted =>
        LET lines == Lines(TheText)
            found == [k \in 1..Len(lines) |-> EventsOfLine(lines[k])]
        IN  /\ ExtractedEvents = Concat(found)
            /\ \A k \in 1..Len(lines) : Len(found[k]) <= 1
            /\ \A k \in 1..Len(lines) :
                LET l == lines[k]
                    n == Len(l)
                IN  StatementsIn(l) >= 1 =>
                        found[k] =
                            << [action   |-> ExpectedAction(l[n - 3]),
                                stack    |-> Join(SubSeq(l, 1, n - 7)),
                                category |-> l[n - 5],
                                tech     |-> l[n]] >>

\* A one-line text of two statements was extracted.
C8_Witness ==
    /\ Extracted
    /\ Len(Lines(TheText)) = 1
    /\ StatementsIn(TheText) = 2

\* C9: no extracted event has the action CelebrateRetirement, Action::from
\* never panics on an unknown tag, and the tech of every event applied is
\* listed in one of the three sets of its (stack, category) from then on.
C9_NoCelebrate ==
    /\ panic # "Unknown action"
    /\ \A k \in 1..Len(results) : \A m \in 1..Len(results[k].events) :
        results[k].events[m].action \in {"Default", "Trial", "Retire"}
    /\ pc \in {"fold", "done"} =>
        \A k \in 1..applied :
            LET e == Flatten(results)[k]
            IN  \E x \in StatusSets :
                    Listed(stacks, e.stack, e.category, x, e.tech)

\* A text with a "celebrate:" tag gave an event, which was applied.
C9_Witness ==
    /\ pc = "done"
    /\ applied >= 1
    /\ \E k \in 1..Len(TheText) - 2 :
        /\ TheText[k] = " "
        /\ TheText[k + 1] = "celebrate"
        /\ TheText[k + 2] = ":"

====
